---------------------------- MODULE Spec2Model ----------------------------
(***************************************************************************)
(* TinyPlayer (src/listener/player.py) and BackgroundKeyboardListener      *)
(* (src/listener/main.py) as a state machine.  Every thread has a program  *)
(* counter named after the source line it is about to execute (L.. in      *)
(* load_sound, P.. in play, C.. in cleanup); one action is one statement,  *)
(* which CPython executes atomically under the interpreter lock.           *)
(***************************************************************************)
EXTENDS Integers, Sequences, FiniteSets, TLC

\* ------------------------------------------------------------- bounds
NThreads == 2
MaxCacheSize == 2
MaxStreams == 1
MaxCallbacks == 2
MaxEvents == 2

Paths == {"a", "b", "c"}
\* the files the concurrent threads work on
SharedPaths == {"a", "b"}
NoPath == "-"
FileStates == {"missing", "bad", "good"}

\* the threads that call the player, or that play_async starts
Threads == 1..NThreads
NoThread == 0
\* the thread of the keyboard.Listener, which runs _on_press
Capture == 0
AllThreads == {Capture} \cup Threads
\* the threads that call the listener: the main thread and one other
Callers == {"M", "X"}
\* what a registered callback does: return, raise, or play_async(SoundPath)
Kinds == {"ok", "raise", "play"}
\* main.py line 105: the one sound the entry point plays
SoundPath == "a"
\* player.py line 11: cache_size=1
DefaultCacheSize == 1
\* main.py line 104: TinyPlayer(cache_size=100)
MainCacheSize == 100
\* the main thread, when it calls the player
MainThread == 1
\* main.py line 116: exit() raises SystemExit(None): exit status 0
ExitNoArg == 0
\* the exit status of an interpreter left by an exception
UncaughtStatus == 1

VARIABLES
  cache,        \* self._cache: the set of keys of the dict
  cache_keys,   \* self._cache_keys: the recency list
  cache_size,   \* self._cache_size
  lock,         \* self._lock: NoThread, or the thread holding it
  terminated,   \* self.pa has been terminated
  streams,      \* number of output streams opened and not closed
  fs,           \* the file system: the state of the file at each path
  pc, op, arg, oldest, res,   \* per thread: position, call, argument, local, result
  hit,          \* per thread: the path was in the cache when the call began
                \* (for cleanup: the call directly follows a cleanup)
  recency,      \* paths in the order of their most recent successful load
  cleaned,      \* the last call to end was cleanup, and no call began since
  running,      \* self.running
  listener,     \* self.listener: the state of the keyboard.Listener object
  thread,       \* self.thread
  callbacks,    \* self.callbacks: what each registered callback does
  lpc,          \* per caller of the listener: position in start or stop
  events,       \* number of key presses the Listener has handed to _on_press
  dpos,         \* index of the callback _on_press calls next (0: not in it)
  regAt,        \* per event: how many callbacks were registered on arrival
  log,          \* the callback invocations so far: <<event, index, type>>
  mpc,          \* position of the entry point ("off": main.py is imported)
  exit_status   \* <<>> while the process runs, <<status>> once it has ended

vars == <<cache, cache_keys, cache_size, lock, terminated, streams, fs,
          pc, op, arg, oldest, res, hit, recency, cleaned,
          running, listener, thread, callbacks, lpc, events, dpos, regAt, log,
          mpc, exit_status>>

mainVars == <<mpc, exit_status>>

\* the variables of main.py
listenerVars ==
  <<running, listener, thread, callbacks, lpc, events, dpos, regAt, log,
    mainVars>>

threadVars == <<pc, op, arg, oldest, res, hit>>

playerVars == <<cache, cache_keys, cache_size, lock, terminated, streams>>

\* ------------------------------------------------------------ helpers
RECURSIVE RemoveFirst(_, _)
\* list.remove(x): drops the first occurrence of x
RemoveFirst(s, x) ==
  IF s = <<>> THEN <<>>
  ELSE IF Head(s) = x THEN Tail(s)
  ELSE <<Head(s)>> \o RemoveFirst(Tail(s), x)

Elems(s) == {s[i] : i \in 1..Len(s)}

\* x in list
InList(s, x) == x \in Elems(s)

\* line 44: len(self._cache_keys) >= self._cache_size and self._cache_keys
CacheFull(keys, size) == Len(keys) >= size /\ keys # <<>>

OldestLast(keys) == keys[Len(keys)]
\* line 45: self._cache_keys.pop(0) returns the head
Oldest(keys) == Head(keys)

\* line 45: what pop(0) leaves
PopOldest(keys) == Tail(keys)

\* the order of most recent successful loads, after a successful load of p
Touch(r, p) == Append(SelectSeq(r, LAMBDA x : x # p), p)

\* the last n elements of s
LastN(s, n) == IF Len(s) <= n THEN s ELSE SubSeq(s, Len(s) - n + 1, Len(s))

AllIdle == \A t \in Threads : pc[t] = "idle"

\* --------------------------------------------------------------- Init
InitWith(files, sizes, entry) ==
  /\ cache = {}
  /\ cache_keys = <<>>
  /\ cache_size \in sizes
  /\ lock = NoThread
  /\ terminated = FALSE
  /\ streams = 0
  /\ fs \in [files -> FileStates]
  /\ pc = [t \in AllThreads |-> "idle"]
  /\ op = [t \in AllThreads |-> "none"]
  /\ arg = [t \in AllThreads |-> NoPath]
  /\ oldest = [t \in AllThreads |-> NoPath]
  /\ res = [t \in AllThreads |-> "none"]
  /\ hit = [t \in AllThreads |-> FALSE]
  /\ recency = <<>>
  /\ cleaned = FALSE
  /\ running = FALSE
  /\ listener = "none"
  /\ thread = "none"
  /\ callbacks = <<>>
  /\ lpc = [c \in Callers |-> "idle"]
  /\ events = 0
  /\ dpos = 0
  /\ regAt = <<>>
  /\ log = <<>>
  /\ mpc = entry
  /\ exit_status = <<>>

InitOn(files) == InitWith(files, 1..MaxCacheSize, "off")

Init == InitOn(SharedPaths)

InitSeq == InitOn(Paths)

\* the listener's callbacks play one sound, on a player of default capacity
InitListener == InitOn({SoundPath}) /\ cache_size = DefaultCacheSize

\* main.py run as a program: lines 104-105 done, line 107 next
InitMain == InitWith({SoundPath}, {MainCacheSize}, "M107")

\* -------------------------------------------------------- environment
\* a file is created, removed, or overwritten by another program
FsChange(p, s) ==
  /\ fs[p] # s
  /\ fs' = [fs EXCEPT ![p] = s]
  /\ UNCHANGED <<playerVars, threadVars, recency, cleaned, listenerVars>>

\* -------------------------------------------------------------- calls
CallLoad(t, p) ==
  /\ pc[t] = "idle"
  /\ pc' = [pc EXCEPT ![t] = "L20"]
  /\ op' = [op EXCEPT ![t] = "load"]
  /\ arg' = [arg EXCEPT ![t] = p]
  /\ hit' = [hit EXCEPT ![t] = p \in cache]
  /\ cleaned' = FALSE
  /\ UNCHANGED <<playerVars, fs, oldest, res, recency, listenerVars>>

CallPlay(t, p) ==
  /\ pc[t] = "idle"
  /\ pc' = [pc EXCEPT ![t] = "P62"]
  /\ op' = [op EXCEPT ![t] = "play"]
  /\ arg' = [arg EXCEPT ![t] = p]
  /\ hit' = [hit EXCEPT ![t] = p \in cache]
  /\ cleaned' = FALSE
  /\ UNCHANGED <<playerVars, fs, oldest, res, recency, listenerVars>>

CallCleanup(t) ==
  /\ pc[t] = "idle"
  /\ pc' = [pc EXCEPT ![t] = "C98"]
  /\ op' = [op EXCEPT ![t] = "cleanup"]
  /\ hit' = [hit EXCEPT ![t] = cleaned]
  /\ cleaned' = FALSE
  /\ UNCHANGED <<playerVars, fs, arg, oldest, res, recency, listenerVars>>

\* the caller takes the result; the thread is free for its next call
Return(t) ==
  /\ pc[t] = "done"
  /\ pc' = [pc EXCEPT ![t] = "idle"]
  /\ op' = [op EXCEPT ![t] = "none"]
  /\ arg' = [arg EXCEPT ![t] = NoPath]
  /\ res' = [res EXCEPT ![t] = "none"]
  /\ hit' = [hit EXCEPT ![t] = FALSE]
  /\ UNCHANGED <<playerVars, fs, oldest, recency, cleaned, listenerVars>>

\* --------------------------------------------------------- load_sound
PlayAfterLoadAlways(val) == IF val = "raised" THEN "done" ELSE "P65"
\* line 62: play goes on to line 65 when load_sound returned True, returns
\* when it returned False; an exception of load_sound leaves play at once
PlayAfterLoad(val) == IF val = "true" THEN "P65" ELSE "done"

\* load_sound ends with val ("true", "false", "raised"): back in the caller
LoadEnds(t, val) ==
  IF op[t] = "load"
  THEN /\ pc' = [pc EXCEPT ![t] = "done"]
       /\ res' = [res EXCEPT ![t] = val]
  ELSE /\ pc' = [pc EXCEPT ![t] = PlayAfterLoad(val)]
       /\ res' = [res EXCEPT ![t] =
                    IF PlayAfterLoad(val) = "done"
                    THEN (IF val = "raised" THEN "raised" ELSE "returned")
                    ELSE "none"]

\* lines 20-22: os.path.exists
L20(t) ==
  /\ pc[t] = "L20"
  /\ IF fs[arg[t]] = "missing"
     THEN LoadEnds(t, "false")
     ELSE pc' = [pc EXCEPT ![t] = "L25"] /\ UNCHANGED res
  /\ UNCHANGED <<playerVars, fs, op, arg, oldest, hit, recency>>

\* line 25: filepath in self._cache
L25(t) ==
  /\ pc[t] = "L25"
  /\ pc' = [pc EXCEPT ![t] = IF arg[t] \in cache THEN "L27" ELSE "L32"]
  /\ UNCHANGED <<playerVars, fs, op, arg, oldest, res, hit, recency>>

\* line 27: self._cache_keys.remove(filepath); ValueError when it is not in
\* the list, outside any try
L27(t) ==
  /\ pc[t] = "L27"
  /\ IF InList(cache_keys, arg[t])
     THEN /\ cache_keys' = RemoveFirst(cache_keys, arg[t])
          /\ pc' = [pc EXCEPT ![t] = "L28"]
          /\ UNCHANGED res
     ELSE /\ LoadEnds(t, "raised")
          /\ UNCHANGED cache_keys
  /\ UNCHANGED <<cache, cache_size, lock, terminated, streams, fs, op, arg,
                 oldest, hit, recency>>

\* lines 28-29: self._cache_keys.append(filepath); return True
L28(t) ==
  /\ pc[t] = "L28"
  /\ cache_keys' = Append(cache_keys, arg[t])
  /\ recency' = Touch(recency, arg[t])
  /\ LoadEnds(t, "true")
  /\ UNCHANGED <<cache, cache_size, lock, terminated, streams, fs, op, arg,
                 oldest, hit>>

\* lines 32-39: wave.open and readframes; any failure is caught at line 53
L32(t) ==
  /\ pc[t] = "L32"
  /\ IF fs[arg[t]] = "good"
     THEN pc' = [pc EXCEPT ![t] = "L42"] /\ UNCHANGED res
     ELSE LoadEnds(t, "false")
  /\ UNCHANGED <<playerVars, fs, op, arg, oldest, hit, recency>>

\* lines 42-44: with self._lock, then the test whether the cache is full
L42(t) ==
  /\ pc[t] = "L42"
  /\ lock = NoThread
  /\ lock' = t
  /\ pc' = [pc EXCEPT ![t] =
              IF CacheFull(cache_keys, cache_size) THEN "L45" ELSE "L49"]
  /\ UNCHANGED <<cache, cache_keys, cache_size, terminated, streams, fs, op,
                 arg, oldest, res, hit, recency>>

LockKeptOnRaise(t) == t
\* line 42: an exception that leaves the with block releases the lock
LockAfterRaise(t) == NoThread

\* line 45: oldest = self._cache_keys.pop(0); IndexError on an empty list
\* leaves the with block (the lock is released) and is caught at line 53
L45(t) ==
  /\ pc[t] = "L45"
  /\ IF cache_keys # <<>>
     THEN /\ oldest' = [oldest EXCEPT ![t] = Oldest(cache_keys)]
          /\ cache_keys' = PopOldest(cache_keys)
          /\ pc' = [pc EXCEPT ![t] = "L46"]
          /\ UNCHANGED <<lock, res>>
     ELSE /\ lock' = LockAfterRaise(t)
          /\ LoadEnds(t, "false")
          /\ UNCHANGED <<oldest, cache_keys>>
  /\ UNCHANGED <<cache, cache_size, terminated, streams, fs, op, arg, hit, recency>>

\* line 46: del self._cache[oldest]; KeyError when the key is gone
L46(t) ==
  /\ pc[t] = "L46"
  /\ oldest' = [oldest EXCEPT ![t] = NoPath]
  /\ IF oldest[t] \in cache
     THEN /\ cache' = cache \ {oldest[t]}
          /\ pc' = [pc EXCEPT ![t] = "L49"]
          /\ UNCHANGED <<lock, res>>
     ELSE /\ lock' = LockAfterRaise(t)
          /\ LoadEnds(t, "false")
          /\ UNCHANGED cache
  /\ UNCHANGED <<cache_keys, cache_size, terminated, streams, fs, op, arg,
                 hit, recency>>

\* line 49: self._cache[filepath] = (...)
L49(t) ==
  /\ pc[t] = "L49"
  /\ cache' = cache \cup {arg[t]}
  /\ pc' = [pc EXCEPT ![t] = "L50"]
  /\ UNCHANGED <<cache_keys, cache_size, lock, terminated, streams, fs, op,
                 arg, oldest, res, hit, recency>>

\* lines 50-52: self._cache_keys.append(filepath); the lock is released;
\* return True
L50(t) ==
  /\ pc[t] = "L50"
  /\ cache_keys' = Append(cache_keys, arg[t])
  /\ lock' = NoThread
  /\ recency' = Touch(recency, arg[t])
  /\ LoadEnds(t, "true")
  /\ UNCHANGED <<cache, cache_size, terminated, streams, fs, op, arg, oldest,
                 hit>>

LoadStep(t) ==
  /\ \/ L20(t) \/ L25(t) \/ L27(t) \/ L28(t) \/ L32(t)
     \/ L42(t) \/ L45(t) \/ L46(t) \/ L49(t) \/ L50(t)
  /\ UNCHANGED <<cleaned, listenerVars>>

\* --------------------------------------------------------------- play
\* line 62: not filepath in self._cache and not self.load_sound(filepath)
P62(t) ==
  /\ pc[t] = "P62"
  /\ pc' = [pc EXCEPT ![t] = IF arg[t] \in cache THEN "P65" ELSE "L20"]
  /\ UNCHANGED <<playerVars, fs, op, arg, oldest, res, hit, recency>>

\* line 65: data, channels, width, rate = self._cache[filepath]; KeyError,
\* outside the try, when the key is gone
P65(t) ==
  /\ pc[t] = "P65"
  /\ IF arg[t] \in cache
     THEN pc' = [pc EXCEPT ![t] = "P69"] /\ UNCHANGED res
     ELSE /\ pc' = [pc EXCEPT ![t] = "done"]
          /\ res' = [res EXCEPT ![t] = "raised"]
  /\ UNCHANGED <<playerVars, fs, op, arg, oldest, hit, recency>>

\* lines 69-74: self.pa.open; the device may refuse, and does once the
\* handle is terminated; the exception is caught at line 82
P69(t) ==
  /\ pc[t] = "P69"
  /\ \/ /\ ~terminated
        /\ streams < MaxStreams
        /\ streams' = streams + 1
        /\ pc' = [pc EXCEPT ![t] = "P77"]
        /\ UNCHANGED res
     \/ /\ pc' = [pc EXCEPT ![t] = "done"]
        /\ res' = [res EXCEPT ![t] = "returned"]
        /\ UNCHANGED streams
  /\ UNCHANGED <<cache, cache_keys, cache_size, lock, terminated, fs, op,
                 arg, oldest, hit, recency>>

\* line 77: stream.write(data); a failure is caught at line 82 and play
\* returns with the stream still open
P77(t) ==
  /\ pc[t] = "P77"
  /\ \/ /\ pc' = [pc EXCEPT ![t] = "P80"]
        /\ UNCHANGED res
     \/ /\ pc' = [pc EXCEPT ![t] = "done"]
        /\ res' = [res EXCEPT ![t] = "returned"]
  /\ UNCHANGED <<playerVars, fs, op, arg, oldest, hit, recency>>

\* lines 80-81: stream.stop_stream(); stream.close(); a failure of
\* stop_stream is caught at line 82 and the stream stays open
P80(t) ==
  /\ pc[t] = "P80"
  /\ pc' = [pc EXCEPT ![t] = "done"]
  /\ res' = [res EXCEPT ![t] = "returned"]
  /\ \/ streams' = streams - 1
     \/ UNCHANGED streams
  /\ UNCHANGED <<cache, cache_keys, cache_size, lock, terminated, fs, op,
                 arg, oldest, hit, recency>>

PlayStep(t) ==
  /\ P62(t) \/ P65(t) \/ P69(t) \/ P77(t) \/ P80(t)
  /\ UNCHANGED <<cleaned, listenerVars>>

\* ------------------------------------------------------------ cleanup
\* line 98: self._cache.clear()
C98(t) ==
  /\ pc[t] = "C98"
  /\ cache' = {}
  /\ pc' = [pc EXCEPT ![t] = "C99"]
  /\ UNCHANGED <<cleaned, cache_keys, cache_size, lock, terminated, streams, fs, op,
                 arg, oldest, res, hit, recency>>

\* line 99: self._cache_keys.clear()
KeysCleared(keys) == <<>>

C99(t) ==
  /\ pc[t] = "C99"
  /\ cache_keys' = KeysCleared(cache_keys)
  /\ recency' = <<>>
  /\ pc' = [pc EXCEPT ![t] = "C101"]
  /\ UNCHANGED <<cleaned, cache, cache_size, lock, terminated, streams, fs, op, arg,
                 oldest, res, hit>>

TerminateRaises(failed) == IF failed THEN "raised" ELSE "returned"
\* lines 100-103: try: self.pa.terminate() except: pass
TerminateResult(failed) == "returned"

C101(t) ==
  /\ pc[t] = "C101"
  /\ \E failed \in BOOLEAN :
       /\ terminated' = (IF failed THEN terminated ELSE TRUE)
       /\ res' = [res EXCEPT ![t] = TerminateResult(failed)]
  /\ pc' = [pc EXCEPT ![t] = "done"]
  /\ cleaned' = TRUE
  /\ UNCHANGED <<cache, cache_keys, cache_size, lock, streams, fs, op, arg,
                 oldest, hit, recency>>

CleanupStep(t) ==
  /\ C98(t) \/ C99(t) \/ C101(t)
  /\ UNCHANGED listenerVars

Step(t) == LoadStep(t) \/ PlayStep(t) \/ CleanupStep(t) \/ Return(t)

\* ---------------------------------------------------------- play_async
PlayAsyncInCaller(caller, fresh) == caller
\* line 87: threading.Thread(target=self.play, ...).start(): play runs on
\* the thread just created, not on the thread that called play_async
PlayAsyncThread(caller, fresh) == fresh

\* lines 85-87: play_async(p) called on thread caller
PlayAsync(caller, p) ==
  /\ pc[caller] = "idle"
  /\ \E w \in Threads : w # caller /\ pc[w] = "idle"
  /\ LET w == CHOOSE w \in Threads :
                /\ w # caller /\ pc[w] = "idle"
                /\ \A u \in Threads \ {caller} : pc[u] = "idle" => w <= u
         r == PlayAsyncThread(caller, w)
     IN /\ pc' = [pc EXCEPT ![r] = "P62"]
        /\ op' = [op EXCEPT ![r] = "play"]
        /\ arg' = [arg EXCEPT ![r] = p]
        /\ hit' = [hit EXCEPT ![r] = p \in cache]
  /\ cleaned' = FALSE
  /\ UNCHANGED <<playerVars, fs, oldest, res, recency>>

CallPlayAsync(t, p) == PlayAsync(t, p) /\ UNCHANGED listenerVars

\* ------------------------------------------------------------ listener
\* main.py line 38: self.callbacks.append(callback)
AddCallback(c, k) ==
  /\ lpc[c] = "idle"
  /\ Len(callbacks) < MaxCallbacks
  /\ callbacks' = Append(callbacks, k)
  /\ UNCHANGED <<playerVars, fs, threadVars, recency, cleaned, running,
                 listener, thread, lpc, events, dpos, regAt, log, mainVars>>

\* pynput's Listener.stop(): a running listener is told to stop; one not
\* started, or already stopped, is left as it is
ListenerStop(l) == IF l = "running" THEN "stopping" ELSE l

CallStart(c) ==
  /\ lpc[c] = "idle"
  /\ lpc' = [lpc EXCEPT ![c] = "S69"]
  /\ UNCHANGED <<playerVars, fs, threadVars, recency, cleaned, running,
                 listener, thread, callbacks, events, dpos, regAt, log,
                 mainVars>>

StartAlways(r) == "S72"
\* lines 69-70: if self.running: return
StartGuard(r) == IF r THEN "start_ret" ELSE "S72"

S69(c) ==
  /\ lpc[c] = "S69"
  /\ lpc' = [lpc EXCEPT ![c] = StartGuard(running)]
  /\ UNCHANGED <<running, listener, thread>>

\* line 72: self.running = True
S72(c) ==
  /\ lpc[c] = "S72"
  /\ running' = TRUE
  /\ lpc' = [lpc EXCEPT ![c] = "S73"]
  /\ UNCHANGED <<listener, thread>>

\* lines 73-76: self.listener = keyboard.Listener(on_press=self._on_press)
S73(c) ==
  /\ lpc[c] = "S73"
  /\ listener' = "created"
  /\ lpc' = [lpc EXCEPT ![c] = "S77"]
  /\ UNCHANGED <<running, thread>>

\* line 77: with self.listener: the Listener's thread is started; when the
\* capture facility cannot be started the exception leaves start()
S77(c) ==
  /\ lpc[c] = "S77"
  /\ \/ /\ listener' = "running"
        /\ lpc' = [lpc EXCEPT ![c] = "S78"]
     \/ /\ listener' = "failed"
        /\ lpc' = [lpc EXCEPT ![c] = "start_exc"]
  /\ UNCHANGED <<running, thread>>

\* line 78: listener.join() returns when the Listener's thread has ended,
\* and raises what a callback raised in it
S78(c) ==
  /\ lpc[c] = "S78"
  /\ listener \in {"stopped", "crashed"}
  /\ lpc' = [lpc EXCEPT ![c] =
               IF listener = "crashed" THEN "start_exc" ELSE "S80"]
  /\ UNCHANGED <<running, listener, thread>>

\* lines 80-84: a second thread is given self.listener.start, which raises
\* in that thread since the Listener was started at line 77; start returns
S80(c) ==
  /\ lpc[c] = "S80"
  /\ thread' = "failed"
  /\ lpc' = [lpc EXCEPT ![c] = "start_ret"]
  /\ UNCHANGED <<running, listener>>

CallStop(c) ==
  /\ lpc[c] = "idle"
  /\ lpc' = [lpc EXCEPT ![c] = "T88"]
  /\ UNCHANGED <<playerVars, fs, threadVars, recency, cleaned, running,
                 listener, thread, callbacks, events, dpos, regAt, log,
                 mainVars>>

\* lines 88-89: if not self.running: return
T88(c) ==
  /\ lpc[c] = "T88"
  /\ lpc' = [lpc EXCEPT ![c] = IF running THEN "T91" ELSE "stop_ret"]
  /\ UNCHANGED <<running, listener, thread>>

\* line 91: self.running = False
T91(c) ==
  /\ lpc[c] = "T91"
  /\ running' = FALSE
  /\ lpc' = [lpc EXCEPT ![c] = "T93"]
  /\ UNCHANGED <<listener, thread>>

\* lines 92-96: if self.listener: self.listener.stop()
T93(c) ==
  /\ lpc[c] = "T93"
  /\ listener' = ListenerStop(listener)
  /\ lpc' = [lpc EXCEPT ![c] = "stop_ret"]
  /\ UNCHANGED <<running, thread>>

\* start or stop is back in its caller
LReturn(c) ==
  /\ lpc[c] \in {"start_ret", "start_exc", "stop_ret"}
  /\ lpc' = [lpc EXCEPT ![c] = "idle"]
  /\ UNCHANGED <<running, listener, thread>>

LStep(c) ==
  /\ \/ S69(c) \/ S72(c) \/ S73(c) \/ S77(c) \/ S78(c) \/ S80(c)
     \/ T88(c) \/ T91(c) \/ T93(c) \/ LReturn(c)
  /\ UNCHANGED <<playerVars, fs, threadVars, recency, cleaned, callbacks,
                 events, dpos, regAt, log, mainVars>>

\* ----------------------------------------------- the Listener's thread
\* line 52: the event type _on_press passes
PressType == "press"

NextCallbackSkip(i) == i + 2
\* line 51: for callback in self.callbacks: the next index of the list
NextCallback(i) == i + 1

\* a key is pressed while the Listener runs: _on_press begins (lines 40-49)
KeyPress ==
  /\ listener = "running"
  /\ dpos = 0
  /\ events < MaxEvents
  /\ events' = events + 1
  /\ dpos' = 1
  /\ regAt' = Append(regAt, Len(callbacks))
  /\ UNCHANGED <<playerVars, fs, threadVars, recency, cleaned, running,
                 listener, thread, callbacks, lpc, log, mainVars>>

\* lines 51-52: callback(key, 'press') for the callback at dpos.  What the
\* callback raises leaves _on_press and ends the Listener's thread; a
\* callback made by play_for_key (player.py lines 89-94) calls play_async
Invoke ==
  /\ dpos \in 1..Len(callbacks)
  /\ pc[Capture] = "idle"
  /\ log' = Append(log, <<events, dpos, PressType>>)
  /\ \/ /\ callbacks[dpos] = "ok"
        /\ dpos' = NextCallback(dpos)
        /\ UNCHANGED <<listener, threadVars, cleaned>>
     \/ /\ callbacks[dpos] = "raise"
        /\ dpos' = 0
        /\ listener' = "crashed"
        /\ UNCHANGED <<threadVars, cleaned>>
     \/ /\ callbacks[dpos] = "play"
        /\ PlayAsync(Capture, SoundPath)
        /\ dpos' = NextCallback(dpos)
        /\ UNCHANGED listener
  /\ UNCHANGED <<playerVars, fs, recency, running, thread, callbacks, lpc,
                 events, regAt, mainVars>>

\* the for loop of line 51 has run off the end of the list
EndDelivery ==
  /\ dpos > Len(callbacks)
  /\ pc[Capture] = "idle"
  /\ dpos' = 0
  /\ UNCHANGED <<playerVars, fs, threadVars, recency, cleaned, running,
                 listener, thread, callbacks, lpc, events, regAt, log,
                 mainVars>>

\* a Listener told to stop ends its thread once no event is being handled
CaptureExit ==
  /\ listener = "stopping"
  /\ dpos = 0
  /\ listener' = "stopped"
  /\ UNCHANGED <<playerVars, fs, threadVars, recency, cleaned, running,
                 thread, callbacks, lpc, events, dpos, regAt, log, mainVars>>

\* ------------------------------------------------------ the entry point
\* line 107: player.load_sound(sound_path) is called
Main107 ==
  /\ mpc = "M107"
  /\ pc[MainThread] = "idle"
  /\ pc' = [pc EXCEPT ![MainThread] = "L20"]
  /\ op' = [op EXCEPT ![MainThread] = "load"]
  /\ arg' = [arg EXCEPT ![MainThread] = SoundPath]
  /\ hit' = [hit EXCEPT ![MainThread] = SoundPath \in cache]
  /\ cleaned' = FALSE
  /\ mpc' = "M107r"
  /\ UNCHANGED <<playerVars, fs, oldest, res, recency, running, listener,
                 thread, callbacks, lpc, events, dpos, regAt, log, exit_status>>

\* line 107: if load_sound returned True go on at line 108, else at line
\* 115; an exception of load_sound is caught nowhere
MainAfterLoad(val) ==
  IF val = "true" THEN "M112" ELSE IF val = "false" THEN "M115" ELSE "uncaught"

\* line 107: load_sound is back
Main107r ==
  /\ mpc = "M107r"
  /\ pc[MainThread] = "done"
  /\ mpc' = MainAfterLoad(res[MainThread])
  /\ pc' = [pc EXCEPT ![MainThread] = "idle"]
  /\ op' = [op EXCEPT ![MainThread] = "none"]
  /\ arg' = [arg EXCEPT ![MainThread] = NoPath]
  /\ res' = [res EXCEPT ![MainThread] = "none"]
  /\ hit' = [hit EXCEPT ![MainThread] = FALSE]
  /\ UNCHANGED <<playerVars, fs, oldest, recency, cleaned, running, listener,
                 thread, callbacks, lpc, events, dpos, regAt, log, exit_status>>

\* lines 111-112: the listener is created (its state is that of __init__)
\* and listener.add_callback(player.play_for_key(sound_path))
Main112 ==
  /\ mpc = "M112"
  /\ callbacks' = Append(callbacks, "play")
  /\ mpc' = "M113"
  /\ UNCHANGED <<playerVars, fs, threadVars, recency, cleaned, running,
                 listener, thread, lpc, events, dpos, regAt, log, exit_status>>

\* line 113: listener.start() is called
Main113 ==
  /\ mpc = "M113"
  /\ lpc["M"] = "idle"
  /\ lpc' = [lpc EXCEPT !["M"] = "S69"]
  /\ mpc' = "M113r"
  /\ UNCHANGED <<playerVars, fs, threadVars, recency, cleaned, running,
                 listener, thread, callbacks, events, dpos, regAt, log,
                 exit_status>>

\* the main thread executes a statement of start()
MainInStart ==
  /\ mpc = "M113r"
  /\ lpc["M"] \notin {"start_ret", "start_exc"}
  /\ LStep("M")

\* line 113: start() is back: by returning, and the program goes on to the
\* loop of lines 119-123, or by an exception, which nothing catches
Main113r ==
  /\ mpc = "M113r"
  /\ lpc["M"] \in {"start_ret", "start_exc"}
  /\ mpc' = IF lpc["M"] = "start_ret" THEN "M122" ELSE "uncaught"
  /\ lpc' = [lpc EXCEPT !["M"] = "idle"]
  /\ UNCHANGED <<playerVars, fs, threadVars, recency, cleaned, running,
                 listener, thread, callbacks, events, dpos, regAt, log,
                 exit_status>>

\* lines 115-116: print("Failed to load sound"); exit()
Main116 ==
  /\ mpc = "M115"
  /\ exit_status' = <<ExitNoArg>>
  /\ mpc' = "exited"
  /\ UNCHANGED <<playerVars, fs, threadVars, recency, cleaned, running,
                 listener, thread, callbacks, lpc, events, dpos, regAt, log>>

\* an exception has left the program: traceback, and the process ends
MainUncaught ==
  /\ mpc = "uncaught"
  /\ exit_status' = <<UncaughtStatus>>
  /\ mpc' = "exited"
  /\ UNCHANGED <<playerVars, fs, threadVars, recency, cleaned, running,
                 listener, thread, callbacks, lpc, events, dpos, regAt, log>>

\* ------------------------------------------------------ specifications
\* any interleaving of calls from NThreads threads, on files that do not
\* change while the threads run
Next ==
  \/ \E t \in Threads, p \in DOMAIN fs : CallLoad(t, p)
  \/ \E t \in Threads, p \in DOMAIN fs : CallPlay(t, p)
  \/ \E t \in Threads, p \in DOMAIN fs : CallPlayAsync(t, p)
  \/ \E t \in Threads : CallCleanup(t)
  \/ \E t \in Threads : Step(t)

Spec == Init /\ [][Next]_vars

\* one call at a time, each run to its end before the next begins, on a
\* file system that changes only between calls
SeqNext ==
  \/ \E p \in DOMAIN fs : AllIdle /\ CallLoad(1, p)
  \/ \E p \in DOMAIN fs : AllIdle /\ CallPlay(1, p)
  \/ AllIdle /\ CallCleanup(1)
  \/ Step(1)
  \/ \E p \in DOMAIN fs, s \in FileStates : AllIdle /\ FsChange(p, s)

SpecSeq == InitSeq /\ [][SeqNext]_vars

\* the listener with playback: the main thread registers callbacks and
\* calls start and stop, another thread calls stop, keys are pressed, and
\* the threads play_async starts run play
ListenerNext ==
  \/ \E k \in Kinds : AddCallback("M", k)
  \/ CallStart("M")
  \/ \E c \in Callers : CallStop(c)
  \/ \E c \in Callers : LStep(c)
  \/ KeyPress
  \/ Invoke
  \/ EndDelivery
  \/ CaptureExit
  \/ \E t \in AllThreads : LoadStep(t) \/ PlayStep(t) \/ Return(t)

SpecListener == InitListener /\ [][ListenerNext]_vars

\* the listener's dispatch alone: both threads register callbacks, which
\* return or raise, also while an event is being delivered
DeliveryNext ==
  \/ \E c \in Callers, k \in {"ok", "raise"} : AddCallback(c, k)
  \/ CallStart("M")
  \/ \E c \in Callers : CallStop(c)
  \/ \E c \in Callers : LStep(c)
  \/ KeyPress
  \/ Invoke
  \/ EndDelivery
  \/ CaptureExit

SpecDelivery == InitListener /\ [][DeliveryNext]_vars

\* SpecDelivery with the scheduling of threads: a thread that is inside
\* start() or stop() and can take its next step takes it, and so does the
\* Listener's thread; calls, registrations and key presses may never come
SpecDeliveryFair ==
  /\ SpecDelivery
  /\ \A c \in Callers : WF_vars(LStep(c))
  /\ WF_vars(Invoke)
  /\ WF_vars(EndDelivery)
  /\ WF_vars(CaptureExit)

\* main.py run as a program: the main thread runs lines 107-116, the
\* Listener's thread delivers key presses, and the threads play_async
\* starts run play.  Nothing here stops the Listener, so start() does not
\* return and lines 119-126 are not reached.
MainNext ==
  \/ Main107
  \/ Main107r
  \/ Main112
  \/ Main113
  \/ MainInStart
  \/ Main113r
  \/ Main116
  \/ MainUncaught
  \/ KeyPress
  \/ Invoke
  \/ EndDelivery
  \/ \E t \in AllThreads : LoadStep(t)
  \/ \E t \in AllThreads : PlayStep(t)
  \/ \E t \in Threads : (t # MainThread \/ mpc # "M107r") /\ Return(t)

SpecMain == InitMain /\ [][MainNext]_vars

\* caller c is inside start()
InStart(c) ==
  lpc[c] \in {"S69", "S72", "S73", "S77", "S78", "S80", "start_ret", "start_exc"}

\* the listener's life cycle: as DeliveryNext, and the other thread calls
\* start() as well, at moments when self.running is set; the main thread
\* does not call start() while the other thread is inside it
LifecycleNext ==
  \/ \E c \in Callers, k \in {"ok", "raise"} : AddCallback(c, k)
  \/ ~InStart("X") /\ CallStart("M")
  \/ running /\ CallStart("X")
  \/ \E c \in Callers : CallStop(c)
  \/ \E c \in Callers : LStep(c)
  \/ KeyPress
  \/ Invoke
  \/ EndDelivery
  \/ CaptureExit

SpecLifecycle == InitListener /\ [][LifecycleNext]_vars

\* ------------------------------------------------------------- claims
\* position of x in a list without duplicates (0 when absent)
Pos(s, x) == IF InList(s, x) THEN CHOOSE i \in 1..Len(s) : s[i] = x ELSE 0

\* C1: in every reachable state, under any interleaving of the threads'
\* calls, the cache holds at most cache_size entries.
C1_CacheWithinCapacity == Cardinality(cache) <= cache_size

\* C2: for sequential loads the cache follows the LRU law: between calls
\* the recency list is the cache_size most recently loaded paths, oldest
\* first, the dict holds exactly those, and the entry a load is evicting
\* is the cached entry whose most recent load is the oldest.
C2_LruLaw ==
  /\ AllIdle => /\ cache_keys = LastN(recency, cache_size)
                /\ cache = Elems(cache_keys)
  /\ \A t \in Threads :
       pc[t] = "L46" =>
         /\ oldest[t] \in cache
         /\ \A q \in cache \ {oldest[t]} :
              Pos(recency, oldest[t]) < Pos(recency, q)

\* capacity 2, loads a, b, a, c: b was evicted and the cache is {a, c}
C2_Witness ==
  /\ AllIdle
  /\ cache_size = 2
  /\ recency = <<"b", "a", "c">>
  /\ cache = {"a", "c"}
  /\ cache_keys = <<"a", "c">>

\* C3: a load of a path that was cached when the call began never opens
\* the file and ends with success and the path most recently used,
\* whatever the file system holds.
C3_HitSucceedsWithoutIO ==
  \A t \in Threads :
    (op[t] = "load" /\ hit[t]) =>
      /\ pc[t] # "L32"
      /\ pc[t] = "done" =>
           /\ res[t] = "true"
           /\ cache_keys # <<>>
           /\ cache_keys[Len(cache_keys)] = arg[t]

\* C4: a load that does not succeed returns failure as a value: it never
\* ends with an exception, in any interleaving.
C4_LoadFailsAsValue ==
  \A t \in Threads :
    (op[t] = "load" /\ pc[t] = "done") => res[t] \in {"true", "false"}

\* C5: play never ends with an exception, also when the entry is evicted
\* or the cache cleared between its test at line 62 and its read at 65.
C5_PlayNeverRaises ==
  \A t \in Threads : op[t] = "play" => res[t] # "raised"

\* C6: throughout a play of a path that was not cached when the call began
\* and whose file does not exist, no step changes the dict, the recency
\* list or the open streams, play never reaches the read of the entry or
\* the device (lines 65-81), and it ends by returning, not by raising.
C6_PlayMissingIsNoOp ==
  [][\A t \in Threads :
       (op[t] = "play" /\ ~hit[t] /\ fs[arg[t]] = "missing") =>
         /\ cache' = cache
         /\ cache_keys' = cache_keys
         /\ streams' = streams
         /\ pc'[t] \notin {"P65", "P69", "P77", "P80"}
         /\ pc'[t] = "done" => res'[t] = "returned"]_vars

\* a play of an uncached, missing path has returned, other entries cached
C6_Witness ==
  \E t \in Threads :
    /\ op[t] = "play" /\ ~hit[t] /\ fs[arg[t]] = "missing"
    /\ pc[t] = "done" /\ res[t] = "returned"
    /\ cache # {} /\ streams = 0

\* the invocations of event e, in the order they were made
Invocations(e) == SelectSeq(log, LAMBDA x : x[1] = e)

\* _on_press has ended for event e, by running off the list or by raising
Delivered(e) == e < events \/ dpos = 0

NoneRaises == \A i \in 1..Len(callbacks) : callbacks[i] # "raise"

\* C7: play_async does not run play on its caller: the thread that
\* delivers key events never executes a statement of play, so what it does
\* next never waits for the stream to be opened or written.
C7_PlayAsyncReturnsAtOnce == pc[Capture] = "idle"

\* the callback after a play_for_key callback has been invoked for the same
\* event while the thread play_async started has not executed line 62
C7_Witness ==
  /\ Len(log) >= 2
  /\ log[Len(log) - 1][1] = log[Len(log)][1]
  /\ callbacks[log[Len(log) - 1][2]] = "play"
  /\ streams = 0
  /\ \E w \in Threads :
       /\ pc[w] = "P62"
       /\ \A u \in Threads \ {w} : pc[u] = "idle"

\* C8: a callback that raises neither ends the Listener's thread nor keeps
\* the callbacks registered after it from being invoked for that event.
C8_CallbackFailureIsolated ==
  /\ listener # "crashed"
  /\ \A e \in 1..events :
       Delivered(e) => Len(Invocations(e)) >= regAt[e]

\* C9: when no callback raises, every invocation passes 'press', the
\* invocations of an event are those of indices 1, 2, ... in that order,
\* once each, a delivered event has invoked every callback registered when
\* it arrived, and no invocation of an event precedes one of an earlier
\* event.
C9_InOrderDelivery ==
  NoneRaises =>
    /\ \A k \in 1..Len(log) : log[k][3] = "press"
    /\ \A k \in 1..(Len(log) - 1) : log[k][1] <= log[k + 1][1]
    /\ \A e \in 1..events :
         /\ \A j \in 1..Len(Invocations(e)) : Invocations(e)[j][2] = j
         /\ Delivered(e) => Len(Invocations(e)) >= regAt[e]

\* two callbacks, two key presses: four invocations in order
C9_Witness ==
  /\ NoneRaises
  /\ regAt = <<2, 2>>
  /\ dpos = 0
  /\ log = << <<1, 1, "press">>, <<1, 2, "press">>,
              <<2, 1, "press">>, <<2, 2, "press">> >>

\* C10: a cleanup that has cleared the dict and the list leaves both empty
\* and ends without raising, also when terminate fails and also when it
\* directly follows another cleanup.
C10_CleanupIdempotent ==
  \A t \in Threads :
    (op[t] = "cleanup" /\ pc[t] \in {"C101", "done"}) =>
      /\ cache = {}
      /\ cache_keys = <<>>
      /\ pc[t] = "done" => res[t] = "returned"

\* a second cleanup, directly after a first, has returned
C10_Witness ==
  \E t \in Threads :
    /\ op[t] = "cleanup" /\ hit[t] /\ pc[t] = "done"
    /\ res[t] = "returned" /\ cache = {} /\ cache_keys = <<>>

\* C11: the listener is a two-state machine on self.running.  A start()
\* that finds it set returns at once and leaves the flag, the Listener and
\* the thread as they are; one that finds it clear sets it.  A stop() that
\* finds it clear returns at once and changes nothing; one that finds it
\* set clears it.  Nothing else changes the flag, and a Listener is created
\* only by a start() that found the flag clear.
C11_TwoStateMachine ==
  [][/\ \A c \in Callers :
          lpc'[c] # lpc[c] =>
            /\ (lpc[c] = "S69" /\ running) =>
                 /\ lpc'[c] = "start_ret"
                 /\ UNCHANGED <<running, listener, thread>>
            /\ (lpc[c] = "S69" /\ ~running) => lpc'[c] = "S72"
            /\ lpc[c] = "S72" => running'
            /\ (lpc[c] = "T88" /\ ~running) =>
                 /\ lpc'[c] = "stop_ret"
                 /\ UNCHANGED <<running, listener, thread>>
            /\ (lpc[c] = "T88" /\ running) => lpc'[c] = "T91"
            /\ lpc[c] = "T91" => ~running'
     /\ running' # running =>
          \E c \in Callers : lpc[c] \in {"S72", "T91"} /\ lpc'[c] # lpc[c]
     /\ (listener' = "created" /\ listener # "created") =>
          \E c \in Callers : lpc[c] = "S73" /\ lpc'[c] = "S77"
     /\ thread' # thread =>
          \E c \in Callers : lpc[c] = "S80" /\ lpc'[c] # lpc[c]]_vars

\* the other thread's start() has returned having done nothing, while the
\* main thread's start() keeps the Listener capturing
C11_Witness ==
  /\ lpc["X"] = "start_ret"
  /\ lpc["M"] = "S78"
  /\ running
  /\ listener = "running"
  /\ thread = "none"

\* C12: start() returns to its caller while capture is active: once
\* start() has started the Listener it goes on to return, whether or not
\* stop() is ever called.
C12_StartReturnsWhileCapturing ==
  (lpc["M"] = "S78" /\ listener = "running") ~> (lpc["M"] # "S78")

\* C13: when a stop() that found the listener running returns, the
\* Listener's thread has ended: it is neither capturing nor on its way to
\* stop, and it is not in the middle of calling the callbacks.
C13_StopWaitsForCapture ==
  [][\A c \in Callers :
       (lpc[c] = "T93" /\ lpc'[c] = "stop_ret") =>
         /\ listener' \notin {"running", "stopping"}
         /\ dpos' = 0]_vars

\* C14: when the load of the sound fails, the program ends with an exit
\* status other than 0, having created no Listener and no thread, registered
\* no callback and run none.
C14_FailedLoadExitsNonZero ==
  (exit_status # <<>> /\ fs[SoundPath] # "good") =>
    /\ exit_status[1] # 0
    /\ listener = "none"
    /\ thread = "none"
    /\ callbacks = <<>>
    /\ log = <<>>

\* C15: every step that changes the dict or the recency list is taken by a
\* thread that holds the lock.
C15_MutationsUnderLock ==
  [][(cache' # cache \/ cache_keys' # cache_keys) =>
       \E t \in Threads : lock = t /\ pc'[t] # pc[t]]_vars

\* thread t is inside the with block of lines 42-50
InSection(t) == pc[t] \in {"L45", "L46", "L49", "L50"}

\* C16: the lock is held exactly by a thread inside the with block of lines
\* 42-50: it is free whenever no thread is there, also after pop or del
\* raised there, so a thread waiting at line 42 waits only for a thread
\* that can take its next step.
C16_LockReleased ==
  /\ \A t \in Threads : InSection(t) <=> lock = t
  /\ lock = NoThread <=> ~(\E t \in Threads : InSection(t))

\* del raised KeyError inside the with block of a load of a readable file,
\* which returned False; the lock is free and the other thread, which
\* waited for it at line 42, can take it
C16_Witness ==
  \E t \in Threads, u \in Threads :
    /\ op[t] = "load" /\ pc[t] = "done" /\ res[t] = "false"
    /\ fs[arg[t]] = "good"
    /\ pc[u] = "L42"
    /\ lock = NoThread

\* C17: when a play of a path that was cached when the call began has
\* ended, that path is the most recently used one: the last of the
\* recency list.
C17_PlayRefreshesRecency ==
  \A t \in Threads :
    (op[t] = "play" /\ hit[t] /\ pc[t] = "done") =>
      /\ cache_keys # <<>>
      /\ cache_keys[Len(cache_keys)] = arg[t]

NoDuplicates(s) == \A i, j \in 1..Len(s) : i # j => s[i] # s[j]

\* C18: whenever no thread is inside a call of the player, the recency
\* list has no duplicates and its elements are the keys of the dict.
C18_KeysMatchDict ==
  (\A t \in Threads : pc[t] \in {"idle", "done"}) =>
    /\ NoDuplicates(cache_keys)
    /\ Elems(cache_keys) = cache

\* C19: when play has ended, by any path, no stream it opened is open.
C19_StreamClosed ==
  \A t \in Threads : (op[t] = "play" /\ pc[t] = "done") => streams = 0

\* C20: when start() has ended with the exception of a Listener that could
\* not be started, the listener is idle: self.running is False, so that
\* the next start() does not return at line 70.
C20_FailedStartStaysIdle ==
  \A c \in Callers :
    (lpc[c] = "start_exc" /\ listener = "failed") => ~running

=============================================================================
